---- MODULE Spec2Model ----
(***************************************************************************)
(* Plom: automated student-ID resolution                                   *)
(* (plom_server/Identify/services/id_reader.py).                           *)
(*                                                                         *)
(* Numbers.  A probability is held in hundredths (90 stands for 0.90), a   *)
(* certainty likewise (round(x, 2) keeps hundredths), and a cost in        *)
(* thousandths of a nat (natural logarithm).  A student ID is the sequence *)
(* of its digits: sid[i] is int(sid[i]) of the source.                     *)
(***************************************************************************)
EXTENDS Integers, Sequences, FiniteSets, Bags, TLC

\* ------------------------------------------------------------ bounds
NumPapers == 2
MaxRoster == 2

Papers == 1..NumPapers
\* The digit alphabet and the positions of an ID, scaled down from 0..9 and
\* from the 8 positions of student_number_length.
Digits == {0, 1}
IdPositions == {1, 2}
Sids == [IdPositions -> Digits]

\* ------------------------------------------------------------ helpers
RECURSIVE Prod(_)
Prod(s) == IF s = <<>> THEN 1 ELSE Head(s) * Prod(Tail(s))

RECURSIVE Pow(_, _)
Pow(b, n) == IF n = 0 THEN 1 ELSE b * Pow(b, n - 1)

RECURSIVE SumSeq(_)
SumSeq(s) == IF s = <<>> THEN 0 ELSE Head(s) + SumSeq(Tail(s))

\* The sum of the values of a function with a finite domain.
RECURSIVE SumFun(_)
SumFun(f) ==
    IF DOMAIN f = {} THEN 0
    ELSE LET x == CHOOSE x \in DOMAIN f : TRUE
         IN f[x] + SumFun([y \in DOMAIN f \ {x} |-> f[y]])

Range(s) == {s[i] : i \in DOMAIN s}

NoDuplicates(s) == \A i, j \in DOMAIN s : i # j => s[i] # s[j]

\* A set of integers as the ascending list of its elements.
RECURSIVE SortedSeq(_)
SortedSeq(S) ==
    IF S = {} THEN <<>>
    ELSE LET lo == CHOOSE x \in S : \A y \in S : x <= y
         IN <<lo>> \o SortedSeq(S \ {lo})

\* Python's max(list) on a non-empty list.
RECURSIVE ListMax(_)
ListMax(s) ==
    IF Len(s) = 1 THEN s[1]
    ELSE LET m == ListMax(Tail(s)) IN IF s[1] >= m THEN s[1] ELSE m

\* Python's list.index(x) shifted to 1-based, for x in the list: the scan
\* stops at the first element equal to x.
RECURSIVE ListIndexFrom(_, _, _)
ListIndexFrom(s, x, i) == IF s[i] = x THEN i ELSE ListIndexFrom(s, x, i + 1)

ListIndexLast(s, x) == CHOOSE i \in DOMAIN s : s[i] = x /\ \A j \in DOMAIN s : j > i => s[j] # x

ListIndex(s, x) == ListIndexFrom(s, x, 1)

\* s.remove(x) of a Python list: drops the first occurrence; the caller
\* swallows the ValueError of an absent x.
RECURSIVE ListRemove(_, _)
ListRemove(s, x) ==
    IF s = <<>> THEN <<>>
    ELSE IF Head(s) = x THEN Tail(s)
    ELSE <<Head(s)>> \o ListRemove(Tail(s), x)

\* ------------------------------------------------------------ inputs
\* The classifier is opaque: predict_proba gives, for the image of a written
\* digit d, one of three confidence profiles (sure, good, undecided).
Profiles == {<<100, 0>>, <<90, 10>>, <<50, 50>>}

predict_proba(d, profile) == [x \in Digits |-> IF x = d THEN profile[1] ELSE profile[2]]

\* The digit-probability matrices the segmenter can return for one ID box:
\* one probability vector per position.
Matrices == {[i \in IdPositions |-> predict_proba(w[i], pr)] : w \in Sids, pr \in Profiles}

Heatmaps == UNION {[D -> Matrices] : D \in SUBSET Papers}

\* The class lists: student IDs in order, each once.
Rosters == {r \in UNION {[1..k -> Sids] : k \in 0..MaxRoster} : NoDuplicates(r)}

\* What the pipeline is run on: a class of two students, in any order and
\* with either missing, and ID boxes read with the good profile.
Enrolled == {<<0, 0>>, <<0, 1>>}
ClassLists == {r \in Rosters : Range(r) \subseteq Enrolled}
BoxReadings == {[i \in IdPositions |-> predict_proba(w[i], <<90, 10>>)] : w \in Enrolled}
BoxHeatmaps == UNION {[D -> BoxReadings] : D \in SUBSET Papers}

\* ------------------------------------------------------------ predictors
\* The probabilities of the digits of sid, position by position.
digit_probs(M, sid) == [i \in 1..Len(sid) |-> M[i][sid[i]]]

\* prod ** (1 / len): x |-> x ** (1/n) is strictly increasing and every ID
\* of a roster has the same length, so the product orders the means; the
\* mean itself is only ever stored rounded (Round2).
geometric_mean_rank(ps) == Prod(ps)

\* round(prod ** (1 / n), 2) in hundredths: the r with
\* (r - 1/2)^n <= prod < (r + 1/2)^n, prod in units of 100^-n.
Round2(ps) ==
    LET n == Len(ps)
        x == Pow(2, n) * Prod(ps)
    IN CHOOSE r \in 0..100 :
          /\ (r = 0 \/ Pow(2 * r - 1, n) <= x)
          /\ x < Pow(2 * r + 1, n)

Returned(v) == [raised |-> "none", value |-> v]
Raised(e) == [raised |-> e, value |-> <<>>]

GreedyPickLast(sid_probs) == ListIndexLast(sid_probs, ListMax(sid_probs))

\* sid_probs.index(max(sid_probs))
GreedyPick(sid_probs) == ListIndex(sid_probs, ListMax(sid_probs))

\* A predictor that gives each student ID to one paper at most.
RECURSIVE GreedyExclusiveFrom(_, _, _)
GreedyExclusiveFrom(papers, student_IDs, probs) ==
    IF papers = <<>> \/ student_IDs = <<>> THEN <<>>
    ELSE LET p == Head(papers)
             sid_probs == [k \in 1..Len(student_IDs) |->
                              geometric_mean_rank(digit_probs(probs[p], student_IDs[k]))]
             best == student_IDs[GreedyPick(sid_probs)]
         IN <<<<p, best, Round2(digit_probs(probs[p], best))>>>>
            \o GreedyExclusiveFrom(Tail(papers), ListRemove(student_IDs, best), probs)

greedy_predictor_exclusive(student_IDs, probs) ==
    IF student_IDs = <<>> /\ DOMAIN probs # {} THEN Raised("ValueError")
    ELSE Returned(GreedyExclusiveFrom(SortedSeq(DOMAIN probs), student_IDs, probs))

greedy_predictor(student_IDs, probs) ==
    LET papers == SortedSeq(DOMAIN probs)
        one(p) ==
            LET sid_probs == [k \in 1..Len(student_IDs) |->
                                 geometric_mean_rank(digit_probs(probs[p], student_IDs[k]))]
                largest_prob == GreedyPick(sid_probs)
            IN <<p, student_IDs[largest_prob],
                 Round2(digit_probs(probs[p], student_IDs[largest_prob]))>>
    IN IF papers = <<>> THEN Returned(<<>>)
       ELSE IF \E p \in DOMAIN probs, k \in DOMAIN student_IDs :
                  Len(student_IDs[k]) > Len(probs[p])
            THEN Raised("IndexError")
       ELSE IF student_IDs = <<>> THEN Raised("ValueError")
       ELSE Returned([k \in 1..Len(papers) |-> one(papers[k])])

\* 1e-30, written as its exponent: no probability in hundredths is negative.
FloorProb == 0 - 30

NoClamp(p) == p

\* max(p, 1e-30): a probability in hundredths is 0 or at least 0.01.
Clamp(p) == IF p > 0 THEN p ELSE FloorProb

\* -np.log(0) is inf: more than any sum of finite costs.
Infinite == 1000 * 1000 * 1000

\* -np.log(x) in thousandths (-ln 1e-30 = 69.078).
NegLog(x) ==
    CASE x = FloorProb -> 69078
      [] x = 0 -> Infinite
      [] x = 10 -> 2303
      [] x = 50 -> 693
      [] x = 90 -> 105
      [] x = 100 -> 0

log_likelihood(student_ID, prediction_probs) ==
    SumSeq([i \in 1..Len(student_ID) |-> NegLog(Clamp(prediction_probs[i][student_ID[i]]))])

\* No comparison of the lengths.
NoLengthCheck(paper_numbers, student_IDs, probs) == FALSE

WrongLength(paper_numbers, student_IDs, probs) ==
    \E r \in DOMAIN paper_numbers, c \in DOMAIN student_IDs :
        Len(probs[paper_numbers[r]]) # Len(student_IDs[c])

assemble_cost_matrix(paper_numbers, student_IDs, probs) ==
    [r \in 1..Len(paper_numbers) |->
        [c \in 1..Len(student_IDs) |->
            log_likelihood(student_IDs[c], probs[paper_numbers[r]])]]

\* The one-to-one assignments of min(n, m) rows of an n x m matrix.
Assignments(n, m) ==
    LET k == IF n <= m THEN n ELSE m
    IN {f \in UNION {[R -> 1..m] : R \in {R \in SUBSET (1..n) : Cardinality(R) = k}} :
          \A a, b \in DOMAIN f : a # b => f[a] # f[b]}

TotalCost(cost, f) == SumFun([r \in DOMAIN f |-> cost[r][f[r]]])

\* Each row takes its own cheapest column, whatever the other rows took.
RowwiseArgmin(cost) ==
    [r \in 1..Len(cost) |->
        <<r, CHOOSE c \in 1..Len(cost[r]) : \A d \in 1..Len(cost[r]) : cost[r][c] <= cost[r][d]>>]

\* Rows in order, each taking the cheapest column still free.
RECURSIVE FirstFit(_, _, _)
FirstFit(cost, r, used) ==
    IF r > Len(cost) \/ used = 1..Len(cost[1]) THEN <<>>
    ELSE LET free == (1..Len(cost[1])) \ used
             c == CHOOSE c \in free : \A d \in free : cost[r][c] <= cost[r][d]
         IN <<<<r, c>>>> \o FirstFit(cost, r + 1, used \cup {c})

RowwiseFirstFit(cost) == FirstFit(cost, 1, {})

\* scipy.optimize.linear_sum_assignment on a finite matrix: an assignment
\* of minimal total cost, as (row, column) pairs with the rows ascending.
\* One fixed answer per matrix; which of several minima is unspecified.
linear_sum_assignment(cost) ==
    LET all == Assignments(Len(cost), Len(cost[1]))
        best == CHOOSE f \in all : \A g \in all : TotalCost(cost, f) <= TotalCost(cost, g)
        rows == SortedSeq(DOMAIN best)
    IN [i \in 1..Len(rows) |-> <<rows[i], best[rows[i]]>>]

lap_predictor(paper_numbers, student_IDs, probs) ==
    IF WrongLength(paper_numbers, student_IDs, probs) THEN Raised("ValueError")
    ELSE LET cost_matrix == assemble_cost_matrix(paper_numbers, student_IDs, probs)
             pairs == linear_sum_assignment(cost_matrix)
         IN Returned([i \in 1..Len(pairs) |->
                LET pn == paper_numbers[pairs[i][1]]
                    sid == student_IDs[pairs[i][2]]
                IN <<pn, sid, Round2(digit_probs(probs[pn], sid))>>])

\* ------------------------------------------------------------ state
VARIABLES
    IDPrediction,        \* the prediction table: a set of rows
    PaperIDTask,         \* paper -> its identification task
    classlist,           \* the roster, in order
    heatmap_file,        \* id_prob_heatmaps.json
    trackers,            \* IDReadingHueyTask rows, in order of creation
    runs,                \* invocations of the pipeline so far
    pc,                  \* where the pipeline invocation stands
    task,                \* the tracker row of the running task (0: none)
    recompute_heatmap,   \* the invocation's recompute_heatmap argument
    img_file_dict,       \* save_all_id_boxes' result in this invocation
    probabilities,       \* the heatmap in use
    student_ids,         \* the roster list handed to the strategies
    papers_to_id,        \* run_lap_solver's papers
    greedy_predictions,  \* _greedy_predictor's result
    lap_predictions,     \* _lap_predictor's result
    written,             \* predictions of the running loop already saved
    at_start,            \* the ID tasks as run_lap_solver read them
    error,               \* the exception that ended the last invocation
    Annotation,          \* the annotations, in order of creation
    MarkingTask,         \* marking task -> its latest annotation (0: none)
    id_pages,            \* paper -> what the scan of its ID page holds
    id_box_folder,       \* the papers with an id_box_NNNN.png file
    calls,               \* caller -> its call of add_or_change_ID_prediction
    StagingImage,        \* staging image -> its image_type
    details,             \* the rows of the five type-detail tables
    cast,                \* the last cast operation and what it raised
    chores,              \* PopulateEvacuateDBChore rows, in order of creation
    requests,            \* requester -> its populate or evacuate request
    enqueued,            \* the chores whose huey task was enqueued
    Paper,               \* the papers in the database
    StagingBundle,       \* the staging bundles
    Bundle,              \* the pushed bundles
    unset_check          \* the last answers about unsetting papers-printed

db_vars == <<IDPrediction, PaperIDTask, classlist, heatmap_file, trackers>>
run_vars == <<runs, pc, task, recompute_heatmap, img_file_dict, probabilities, student_ids, papers_to_id,
              greedy_predictions, lap_predictions, written, at_start, error>>
reader_vars == <<db_vars, run_vars>>
mark_vars == <<Annotation, MarkingTask>>
page_vars == <<id_pages, id_box_folder>>
race_vars == <<calls>>
scan_vars == <<StagingImage, details, cast>>
chore_vars == <<chores, requests, enqueued, Paper>>
prep_vars == <<StagingBundle, Bundle, unset_check>>
other_vars == <<mark_vars, page_vars, race_vars, scan_vars, chore_vars, prep_vars>>
vars == <<reader_vars, other_vars>>

EmptyMap == [p \in {} |-> 0]
NotCalled == [raised |-> "notcalled", value |-> <<>>]
NoFile == [exists |-> FALSE, data |-> EmptyMap]
FileWith(heatmap) == [exists |-> TRUE, data |-> heatmap]
TODO == "todo"
COMPLETE == "complete"
NoTasks == [p \in Papers |-> [status |-> TODO, student_id |-> <<>>]]
NoSnapshot == NoTasks

\* The other apps' tables before anything is marked.
NumTasks == 2
MarkingTasks == 1..NumTasks
InitMark ==
    /\ Annotation = <<>>
    /\ MarkingTask = [t \in MarkingTasks |-> 0]

\* What a scanned ID page holds: whether the rectangle extractor finds the
\* box on it, whether the box image is at least 32 x 32, and in each digit
\* cell of the box a written digit or nothing (no contour).
\* The scans and the folder are followed in SpecPages; the specifications
\* that draw each invocation's boxes and matrices from the bounded sets
\* stand for every outcome of the scans, and leave both as they are.
Blank == 0 - 1
Unscanned == [scanned |-> FALSE, region |-> FALSE, big |-> FALSE, cells |-> <<>>]
ScannedPage(region, big, cells) ==
    [scanned |-> TRUE, region |-> region, big |-> big, cells |-> cells]

InitPages ==
    /\ id_pages = [p \in Papers |-> Unscanned]
    /\ id_box_folder = {}

\* No call of add_or_change_ID_prediction is under way.
NumCallers == 2
Callers == 1..NumCallers
NoCall == [at |-> "idle", paper_num |-> 0, student_id |-> <<>>, predictor |-> "",
           existing_pred |-> FALSE, made |-> 0, raised |-> "none"]
InitCalls == calls = [c \in Callers |-> NoCall]

\* A bundle of unread images.
NumImages == 2
Images == 1..NumImages
UNREAD == "unread"
NoCast == [op |-> "none", img |-> 0, raised |-> "none"]
InitScan ==
    /\ StagingImage = [i \in Images |-> UNREAD]
    /\ details = {}
    /\ cast = NoCast

\* No chore, no request.
NumRequesters == 2
Requesters == 1..NumRequesters
NoRequest == [at |-> "idle", action |-> "", made |-> 0, raised |-> "none"]
InitChores ==
    /\ chores = <<>>
    /\ requests = [r \in Requesters |-> NoRequest]
    /\ enqueued = {}
    /\ Paper = {}

\* No bundle uploaded, nothing asked.
NotAsked == [called |-> "none", raised |-> "none", value |-> FALSE]
InitPrep ==
    /\ StagingBundle = {}
    /\ Bundle = {}
    /\ unset_check = NotAsked

InitOther == InitMark /\ InitPages /\ InitCalls /\ InitScan /\ InitChores /\ InitPrep

\* The ID reader as the other apps' specifications start it: no class list,
\* nothing read yet.
InitReader ==
    /\ IDPrediction = EmptyBag
    /\ PaperIDTask = NoTasks
    /\ classlist = <<>>
    /\ heatmap_file = NoFile
    /\ trackers = <<>>
    /\ runs = 0
    /\ pc = "idle"
    /\ task = 0
    /\ recompute_heatmap = TRUE
    /\ img_file_dict = {}
    /\ probabilities = EmptyMap
    /\ student_ids = <<>>
    /\ papers_to_id = <<>>
    /\ greedy_predictions = NotCalled
    /\ lap_predictions = NotCalled
    /\ written = 0
    /\ at_start = NoSnapshot
    /\ error = "none"

\* ------------------------------------------------------------ the predictors alone
\* The two predictors applied to every heatmap and roster of the bounds.
InitPredictors ==
    /\ probabilities \in Heatmaps
    /\ student_ids \in Rosters
    /\ papers_to_id = SortedSeq(DOMAIN probabilities)
    /\ greedy_predictions = NotCalled
    /\ lap_predictions = NotCalled
    /\ pc = "predictors"
    /\ IDPrediction = EmptyBag
    /\ PaperIDTask = NoTasks
    /\ classlist = student_ids
    /\ heatmap_file = NoFile
    /\ trackers = <<>>
    /\ runs = 0
    /\ task = 0
    /\ recompute_heatmap = TRUE
    /\ img_file_dict = {}
    /\ written = 0
    /\ at_start = NoSnapshot
    /\ error = "none"
    /\ InitOther

CallGreedyPredictor ==
    /\ pc = "predictors"
    /\ greedy_predictions = NotCalled
    /\ greedy_predictions' = greedy_predictor(student_ids, probabilities)
    /\ UNCHANGED <<db_vars, runs, pc, task, recompute_heatmap, img_file_dict, probabilities,
                   student_ids, papers_to_id, lap_predictions, written, at_start, error>>
    /\ UNCHANGED other_vars

\* run_lap_solver calls _lap_predictor only with papers and students.
CallLapPredictor ==
    /\ pc = "predictors"
    /\ lap_predictions = NotCalled
    /\ papers_to_id # <<>>
    /\ student_ids # <<>>
    /\ lap_predictions' = lap_predictor(papers_to_id, student_ids, probabilities)
    /\ UNCHANGED <<db_vars, runs, pc, task, recompute_heatmap, img_file_dict, probabilities,
                   student_ids, papers_to_id, greedy_predictions, written, at_start, error>>
    /\ UNCHANGED other_vars

NextPredictors == CallGreedyPredictor \/ CallLapPredictor

SpecPredictors == InitPredictors /\ [][NextPredictors]_vars

\* ------------------------------------------------------------ the prediction table
\* The table is a bag of rows: two rows that differ in their primary key
\* only are two copies of one element.
MLGreedy == "MLGreedy"
MLLAP == "MLLAP"
Prename == "prename"
\* predictor = None (or ""): "if predictor:" fails.
NoPredictor == ""

Row(paper_num, predictor, student_id, certainty) ==
    [paper |-> paper_num, predictor |-> predictor,
     student_id |-> student_id, certainty |-> certainty]

\* IDPrediction.objects.filter(paper=..., predictor=...)
Rows(table, paper_num, predictor) ==
    {r \in BagToSet(table) : r.paper = paper_num /\ r.predictor = predictor}

RowCount(table, paper_num, predictor) ==
    SumFun([r \in Rows(table, paper_num, predictor) |-> CopiesIn(r, table)])

\* IDPrediction.objects.get(paper=..., predictor=...) finds several rows.
MultipleObjectsReturned(table, paper_num, predictor) ==
    RowCount(table, paper_num, predictor) > 1

AlwaysInsert(table, paper_num, student_id, certainty, predictor) ==
    table (+) SetToBag({Row(paper_num, predictor, student_id, certainty)})

\* The table after add_or_change_ID_prediction; unchanged when get() raises.
add_or_change_ID_prediction(table, paper_num, student_id, certainty, predictor) ==
    LET existing == Rows(table, paper_num, predictor)
        new_prediction == SetToBag({Row(paper_num, predictor, student_id, certainty)})
    IN IF RowCount(table, paper_num, predictor) = 0
       THEN table (+) new_prediction
       ELSE IF RowCount(table, paper_num, predictor) = 1
       THEN (table (-) SetToBag(existing)) (+) new_prediction
       ELSE table

delete_ID_predictions(table, predictor) ==
    IF predictor # NoPredictor
    THEN [r \in {x \in BagToSet(table) : x.predictor # predictor} |-> table[r]]
    ELSE EmptyBag

get_prenamed_paper_numbers(table) ==
    {r.paper : r \in {x \in BagToSet(table) : x.predictor = Prename}}

\* The student IDs of the completed identifications, one per task.
get_already_matched_sids(tasks) ==
    LET done == SortedSeq({p \in Papers : tasks[p].status = COMPLETE})
    IN [k \in 1..Len(done) |-> tasks[done[k]].student_id]

\* The lists a query without order_by may give for a set of rows.
QueryOrders(S) ==
    {o \in [1..Cardinality(S) -> S] : \A i, j \in DOMAIN o : i # j => o[i] # o[j]}

\* PaperIDTask.objects.filter(status=TO_DO), in any of the orders the
\* database may return the rows.
get_unidentified_papers(tasks) == QueryOrders({p \in Papers : tasks[p].status = TODO})

RemoveNone(student_IDs, matched) == student_IDs

\* for ided_stu in ...: try student_ids.remove(ided_stu) except ValueError: pass
RECURSIVE RemoveAll(_, _)
RemoveAll(student_IDs, matched) ==
    IF matched = <<>> THEN student_IDs
    ELSE RemoveAll(ListRemove(student_IDs, Head(matched)), Tail(matched))

\* [n for n in unidentified_papers if n in probabilities]
RECURSIVE Filter(_, _)
Filter(list, S) ==
    IF list = <<>> THEN <<>>
    ELSE IF Head(list) \in S THEN <<Head(list)>> \o Filter(Tail(list), S)
    ELSE Filter(Tail(list), S)

DegenerateOnlyPapers(papers, student_IDs) == Len(papers) = 0

\* if len(papers_to_id) == 0 or len(student_ids) == 0: raise IndexError
Degenerate(papers, student_IDs) == Len(papers) = 0 \/ Len(student_IDs) = 0

\* ------------------------------------------------------------ the pipeline
MaxRuns == 2

Init ==
    /\ IDPrediction = EmptyBag
    /\ PaperIDTask = NoTasks
    /\ classlist \in ClassLists
    /\ heatmap_file = NoFile
    /\ trackers = <<>>
    /\ runs = 0
    /\ pc = "idle"
    /\ task = 0
    /\ recompute_heatmap = TRUE
    /\ img_file_dict = {}
    /\ probabilities = EmptyMap
    /\ student_ids = <<>>
    /\ papers_to_id = <<>>
    /\ greedy_predictions = NotCalled
    /\ lap_predictions = NotCalled
    /\ written = 0
    /\ at_start = NoSnapshot
    /\ error = "none"
    /\ InitOther

\* The invocation is over: its locals are gone.
EndRun(e) ==
    /\ pc' = "idle"
    /\ task' = 0
    /\ recompute_heatmap' = TRUE
    /\ img_file_dict' = {}
    /\ probabilities' = EmptyMap
    /\ student_ids' = <<>>
    /\ papers_to_id' = <<>>
    /\ greedy_predictions' = NotCalled
    /\ lap_predictions' = NotCalled
    /\ written' = 0
    /\ at_start' = NoSnapshot
    /\ error' = e
    /\ UNCHANGED runs

\* save_all_id_boxes: the extractor gives a box for some of the scanned
\* papers that are not prenamed; the others are left out.
save_all_id_boxes(boxes) ==
    /\ boxes \subseteq Papers \ get_prenamed_paper_numbers(IDPrediction)
    /\ img_file_dict' = boxes

\* run_the_id_reader_in_foreground, to the return of save_all_id_boxes.
RunInForeground(recompute, boxes) ==
    /\ pc = "idle"
    /\ runs < MaxRuns
    /\ runs' = runs + 1
    /\ save_all_id_boxes(boxes)
    /\ recompute_heatmap' = recompute
    /\ pc' = "boxes"
    /\ error' = "none"
    /\ UNCHANGED <<IDPrediction, PaperIDTask, classlist, heatmap_file, trackers, task,
                   probabilities, student_ids, papers_to_id, greedy_predictions,
                   lap_predictions, written, at_start>>
    /\ UNCHANGED other_vars

\* A roster that is not read from the database.
FixedRoster(students) == <<<<0, 0>>, <<0, 1>>>>

\* ClasslistService.get_classlist_sids_for_ID_matching: the student IDs of
\* the class list as it is when the call is made.
get_classlist_sids_for_ID_matching(students) == students

\* What is_model_present, download_model and load_model come to.
ModelOutcomes == {"loaded", "unavailable"}

\* make_id_predictions down to _greedy_predictor: the classifier is loaded
\* and the heatmap computed from the boxes (a paper whose digits are not
\* found gets no matrix), or the heatmap is read from the file; then the
\* class list is read.
MakeIdPredictions(heatmap, model) ==
    /\ pc = "boxes"
    /\ IF recompute_heatmap /\ model = "loaded"
       THEN /\ DOMAIN heatmap \subseteq img_file_dict
            /\ heatmap_file' = FileWith(heatmap)
       ELSE /\ heatmap = heatmap_file.data
            /\ UNCHANGED heatmap_file
    /\ LET failure == IF recompute_heatmap /\ model = "unavailable" THEN "ModelLoadError"
                      ELSE IF ~recompute_heatmap /\ ~heatmap_file.exists
                           THEN "FileNotFoundError"
                           ELSE "none"
           student_IDs == get_classlist_sids_for_ID_matching(classlist)
           result == greedy_predictor(student_IDs, heatmap)
       IN IF failure # "none"
          THEN EndRun(failure)
          ELSE IF result.raised # "none"
               THEN EndRun(result.raised)
               ELSE /\ probabilities' = heatmap
                    /\ student_ids' = student_IDs
                    /\ greedy_predictions' = result
                    /\ written' = 0
                    /\ pc' = IF result.value = <<>> THEN "lap" ELSE "greedy"
                    /\ UNCHANGED <<runs, task, recompute_heatmap, img_file_dict,
                                   papers_to_id, lap_predictions, at_start, error>>
    /\ UNCHANGED <<IDPrediction, PaperIDTask, classlist, trackers>>
    /\ UNCHANGED other_vars

\* One turn of a strategy's loop over its predictions: one call of
\* add_or_change_ID_prediction.
WritePrediction(predictions, predictor, next_pc) ==
    LET prediction == predictions[written + 1]
    IN IF MultipleObjectsReturned(IDPrediction, prediction[1], predictor)
       THEN /\ EndRun("MultipleObjectsReturned")
            /\ UNCHANGED IDPrediction
       ELSE /\ IDPrediction' = add_or_change_ID_prediction(
                   IDPrediction, prediction[1], prediction[2], prediction[3], predictor)
            /\ written' = written + 1
            /\ pc' = IF written + 1 = Len(predictions) THEN next_pc ELSE pc
            /\ UNCHANGED <<runs, task, recompute_heatmap, img_file_dict, probabilities,
                           student_ids, papers_to_id, greedy_predictions, lap_predictions,
                           at_start, error>>

RunGreedyWrongKind ==
    /\ pc = "greedy"
    /\ WritePrediction(greedy_predictions.value, MLLAP, "lap")
    /\ UNCHANGED <<PaperIDTask, classlist, heatmap_file, trackers>>
    /\ UNCHANGED other_vars

\* run_greedy's loop.
RunGreedy ==
    /\ pc = "greedy"
    /\ WritePrediction(greedy_predictions.value, MLGreedy, "lap")
    /\ UNCHANGED <<PaperIDTask, classlist, heatmap_file, trackers>>
    /\ UNCHANGED other_vars

\* run_lap_solver down to _lap_predictor.
RunLapSolverStart(unidentified_papers) ==
    /\ pc = "lap"
    /\ unidentified_papers \in get_unidentified_papers(PaperIDTask)
    /\ LET remaining == RemoveAll(student_ids, get_already_matched_sids(PaperIDTask))
           papers == Filter(unidentified_papers, DOMAIN probabilities)
       IN IF Degenerate(papers, remaining)
          THEN EndRun("IndexError")
          ELSE LET result == lap_predictor(papers, remaining, probabilities)
               IN IF result.raised # "none"
                  THEN EndRun(result.raised)
                  ELSE /\ student_ids' = remaining
                       /\ papers_to_id' = papers
                       /\ lap_predictions' = result
                       /\ written' = 0
                       /\ pc' = IF result.value = <<>> THEN "done" ELSE "lap_write"
                       /\ at_start' = PaperIDTask
                       /\ UNCHANGED <<runs, task, recompute_heatmap, img_file_dict,
                                      probabilities, greedy_predictions, error>>
    /\ UNCHANGED db_vars
    /\ UNCHANGED other_vars

\* run_lap_solver's loop.
RunLapSolver ==
    /\ pc = "lap_write"
    /\ WritePrediction(lap_predictions.value, MLLAP, "done")
    /\ UNCHANGED <<PaperIDTask, classlist, heatmap_file, trackers>>
    /\ UNCHANGED other_vars

\* run_the_id_reader_in_foreground returns.
ForegroundReturns ==
    /\ pc = "done"
    /\ task = 0
    /\ EndRun("none")
    /\ UNCHANGED db_vars
    /\ UNCHANGED other_vars

\* A paper is identified (IdentifyTaskService.identify_paper, as
\* identify_direct calls it): its task is complete with that student ID.
IdentifyPaper(paper_num, student_id) ==
    /\ PaperIDTask[paper_num].status = TODO
    /\ PaperIDTask' = [PaperIDTask EXCEPT
                          ![paper_num] = [status |-> COMPLETE, student_id |-> student_id]]
    /\ UNCHANGED <<IDPrediction, classlist, heatmap_file, trackers, run_vars>>
    /\ UNCHANGED other_vars

\* IDPredictionHXDeleteView.delete and the command's --delete, used between
\* invocations of the pipeline.
DeletePredictions(predictor) ==
    /\ pc = "idle"
    /\ IDPrediction' = delete_ID_predictions(IDPrediction, predictor)
    /\ UNCHANGED <<PaperIDTask, classlist, heatmap_file, trackers, run_vars>>
    /\ UNCHANGED other_vars

\* add_prename_ID_prediction, for a student the class list gives a paper
\* (here student k may be given paper k): prenaming is settled before any
\* paper is read.
AddPrename(paper_num) ==
    /\ runs = 0
    /\ paper_num \in DOMAIN classlist
    /\ ~MultipleObjectsReturned(IDPrediction, paper_num, Prename)
    /\ IDPrediction' = add_or_change_ID_prediction(
            IDPrediction, paper_num, classlist[paper_num], 90, Prename)
    /\ UNCHANGED <<PaperIDTask, classlist, heatmap_file, trackers, run_vars>>
    /\ UNCHANGED other_vars

Next ==
    \/ \E recompute \in BOOLEAN, boxes \in SUBSET Papers : RunInForeground(recompute, boxes)
    \/ \E heatmap \in BoxHeatmaps, model \in ModelOutcomes : MakeIdPredictions(heatmap, model)
    \/ RunGreedy
    \/ \E unidentified_papers \in get_unidentified_papers(PaperIDTask) :
          RunLapSolverStart(unidentified_papers)
    \/ RunLapSolver
    \/ ForegroundReturns
    \/ \E p \in Papers, sid \in Enrolled : IdentifyPaper(p, sid)
    \/ \E predictor \in {MLGreedy, MLLAP} : DeletePredictions(predictor)
    \/ \E p \in Papers : AddPrename(p)

Spec == Init /\ [][Next]_vars

\* ------------------------------------------------------------ the background task
Starting == "Starting"
Queued == "Queued"
Running == "Running"
Complete == "Complete"
InFlight == {Starting, Queued, Running}

\* run_the_id_reader_in_background_via_huey, to the enqueueing of the task:
\* a tracker row is created whatever rows exist already.
RequestRun(recompute) ==
    /\ Len(trackers) < MaxRuns
    /\ trackers' = Append(trackers, [status |-> Starting, recompute_heatmap |-> recompute])
    /\ UNCHANGED <<IDPrediction, PaperIDTask, classlist, heatmap_file, run_vars>>
    /\ UNCHANGED other_vars

\* HueyTaskTracker.transition_to_queued_or_running, the request's last line.
TransitionToQueued(k) ==
    /\ trackers[k].status = Starting
    /\ trackers' = [trackers EXCEPT ![k].status = Queued]
    /\ UNCHANGED <<IDPrediction, PaperIDTask, classlist, heatmap_file, run_vars>>
    /\ UNCHANGED other_vars

\* huey_id_reading_task, to the return of save_all_id_boxes: the worker takes
\* the oldest task not yet run.
TaskStart(k, boxes) ==
    /\ pc = "idle"
    /\ trackers[k].status \in {Starting, Queued}
    /\ \A j \in 1..(k - 1) : trackers[j].status \notin {Starting, Queued}
    /\ trackers' = [trackers EXCEPT ![k].status = Running]
    /\ task' = k
    /\ runs' = runs + 1
    /\ save_all_id_boxes(boxes)
    /\ recompute_heatmap' = trackers[k].recompute_heatmap
    /\ pc' = "boxes"
    /\ error' = "none"
    /\ UNCHANGED <<IDPrediction, PaperIDTask, classlist, heatmap_file,
                   probabilities, student_ids, papers_to_id, greedy_predictions,
                   lap_predictions, written, at_start>>
    /\ UNCHANGED other_vars

\* HueyTaskTracker.transition_to_complete, the task's last line.
TaskComplete ==
    /\ pc = "done"
    /\ task # 0
    /\ trackers' = [trackers EXCEPT ![task].status = Complete]
    /\ EndRun("none")
    /\ UNCHANGED <<IDPrediction, PaperIDTask, classlist, heatmap_file>>
    /\ UNCHANGED other_vars

NextHuey ==
    \/ \E recompute \in BOOLEAN : RequestRun(recompute)
    \/ \E k \in DOMAIN trackers : TransitionToQueued(k)
    \/ \E k \in DOMAIN trackers, boxes \in SUBSET Papers : TaskStart(k, boxes)
    \/ \E heatmap \in BoxHeatmaps, model \in ModelOutcomes : MakeIdPredictions(heatmap, model)
    \/ RunGreedy
    \/ \E unidentified_papers \in get_unidentified_papers(PaperIDTask) :
          RunLapSolverStart(unidentified_papers)
    \/ RunLapSolver
    \/ TaskComplete

SpecHuey == Init /\ [][NextHuey]_vars

\* ------------------------------------------------------------ the table's callers
\* Every caller of add_or_change_ID_prediction and delete_ID_predictions, one
\* call at a time, on any paper: the strategies save (student A, 0.90), the
\* command saves (student B, 0.50) under any predictor.
StudentA == <<0, 0>>
StudentB == <<0, 1>>

InitTable ==
    /\ IDPrediction = EmptyBag
    /\ PaperIDTask = NoTasks
    /\ classlist = <<StudentA, StudentB>>
    /\ heatmap_file = NoFile
    /\ trackers = <<>>
    /\ runs = 0
    /\ pc = "table"
    /\ task = 0
    /\ recompute_heatmap = TRUE
    /\ img_file_dict = {}
    /\ probabilities = EmptyMap
    /\ student_ids = <<>>
    /\ papers_to_id = <<>>
    /\ greedy_predictions = NotCalled
    /\ lap_predictions = NotCalled
    /\ written = 0
    /\ at_start = NoSnapshot
    /\ error = "none"
    /\ InitOther

\* One call; written counts the calls that found a row under their key.
Call(paper_num, student_id, certainty, predictor) ==
    /\ pc = "table"
    /\ IF MultipleObjectsReturned(IDPrediction, paper_num, predictor)
       THEN /\ error' = "MultipleObjectsReturned"
            /\ UNCHANGED <<IDPrediction, written>>
       ELSE /\ IDPrediction' = add_or_change_ID_prediction(
                   IDPrediction, paper_num, student_id, certainty, predictor)
            /\ written' = IF RowCount(IDPrediction, paper_num, predictor) = 1 THEN 1 ELSE written
            /\ UNCHANGED error
    /\ UNCHANGED <<PaperIDTask, classlist, heatmap_file, trackers, runs, pc, task,
                   recompute_heatmap, img_file_dict, probabilities, student_ids,
                   papers_to_id, greedy_predictions, lap_predictions, at_start>>
    /\ UNCHANGED other_vars

\* run_greedy's call, for a prediction (paper, student A, 0.90).
GreedySaves(paper_num) == Call(paper_num, StudentA, 90, MLGreedy)

\* run_lap_solver's call.
LapSaves(paper_num) == Call(paper_num, StudentA, 90, MLLAP)

\* add_prename_ID_prediction
PrenameSaves(paper_num) == Call(paper_num, StudentA, 90, Prename)

\* add_or_change_ID_prediction_cmd, for a manager's username: the certainty
\* is the caller's, passed on as it is.
add_or_change_ID_prediction_cmd(paper_num, certainty, predictor) ==
    Call(paper_num, StudentB, certainty, predictor)

DeleteCall(predictor) ==
    /\ pc = "table"
    /\ IDPrediction' = delete_ID_predictions(IDPrediction, predictor)
    /\ UNCHANGED <<PaperIDTask, classlist, heatmap_file, trackers, run_vars>>
    /\ UNCHANGED other_vars

NextTable ==
    \/ \E p \in Papers : GreedySaves(p)
    \/ \E p \in Papers : LapSaves(p)
    \/ \E p \in Papers : PrenameSaves(p)
    \/ \E p \in Papers, predictor \in {MLGreedy, MLLAP, Prename} :
          add_or_change_ID_prediction_cmd(p, 50, predictor)
    \/ \E predictor \in {MLGreedy, MLLAP, NoPredictor} : DeleteCall(predictor)

SpecTable == InitTable /\ [][NextTable]_vars

\* The same callers, the command with any certainty a caller may type:
\* a half, or one and a half.
CmdCertainties == {50, 150}

NextCertainty ==
    \/ \E p \in Papers : GreedySaves(p)
    \/ \E p \in Papers : LapSaves(p)
    \/ \E p \in Papers : PrenameSaves(p)
    \/ \E p \in Papers, certainty \in CmdCertainties, predictor \in {MLGreedy, MLLAP, Prename} :
          add_or_change_ID_prediction_cmd(p, certainty, predictor)

SpecCertainty == InitTable /\ [][NextCertainty]_vars

\* ------------------------------------------------------------ one run of the strategies
\* Class lists whose student IDs have one digit fewer, or one more, than the
\* student_number_length the matrices are computed for.
ShortIds == {<<0>>, <<1>>}
LongId == <<0, 1, 0>>
StrategyClassLists ==
    ClassLists
    \cup {r \in UNION {[1..k -> ShortIds] : k \in 1..MaxRoster} : NoDuplicates(r)}
    \cup {<<LongId>>}

\* One invocation on an empty table, every paper's box extracted, no paper
\* identified.
InitStrategies ==
    /\ IDPrediction = EmptyBag
    /\ PaperIDTask = NoTasks
    /\ classlist \in StrategyClassLists
    /\ heatmap_file = NoFile
    /\ trackers = <<>>
    /\ runs = 1
    /\ pc = "boxes"
    /\ task = 0
    /\ recompute_heatmap = TRUE
    /\ img_file_dict = Papers
    /\ probabilities = EmptyMap
    /\ student_ids = <<>>
    /\ papers_to_id = <<>>
    /\ greedy_predictions = NotCalled
    /\ lap_predictions = NotCalled
    /\ written = 0
    /\ at_start = NoSnapshot
    /\ error = "none"
    /\ InitOther

NextStrategies ==
    \/ \E heatmap \in BoxHeatmaps, model \in ModelOutcomes : MakeIdPredictions(heatmap, model)
    \/ RunGreedy
    \/ \E unidentified_papers \in get_unidentified_papers(PaperIDTask) :
          RunLapSolverStart(unidentified_papers)
    \/ RunLapSolver
    \/ ForegroundReturns

SpecStrategies == InitStrategies /\ [][NextStrategies]_vars

\* ------------------------------------------------------------ re-runs on a changed class list
\* remove_all_students and validate_and_use_classlist_csv: the class list is
\* replaced between two invocations.  assert_can_modify_classlist lets this
\* happen only while the papers are not printed; this specification leaves
\* the condition out, so that a re-run is also checked on a class list that
\* changed after the matrices were computed.
ChangeClasslist(students) ==
    /\ pc = "idle"
    /\ runs >= 1
    /\ students # classlist
    /\ classlist' = students
    /\ UNCHANGED <<IDPrediction, PaperIDTask, heatmap_file, trackers, run_vars>>
    /\ UNCHANGED other_vars

NextRerun ==
    \/ \E recompute \in BOOLEAN, boxes \in SUBSET Papers : RunInForeground(recompute, boxes)
    \/ \E heatmap \in BoxHeatmaps, model \in ModelOutcomes : MakeIdPredictions(heatmap, model)
    \/ RunGreedy
    \/ \E unidentified_papers \in get_unidentified_papers(PaperIDTask) :
          RunLapSolverStart(unidentified_papers)
    \/ RunLapSolver
    \/ ForegroundReturns
    \/ \E students \in ClassLists : ChangeClasslist(students)

SpecRerun == Init /\ [][NextRerun]_vars

\* ------------------------------------------------------------ runs without deletion
\* Invocations with papers identified in between; no prediction is deleted.
NextKeep ==
    \/ \E recompute \in BOOLEAN, boxes \in SUBSET Papers : RunInForeground(recompute, boxes)
    \/ \E heatmap \in BoxHeatmaps, model \in ModelOutcomes : MakeIdPredictions(heatmap, model)
    \/ RunGreedy
    \/ \E unidentified_papers \in get_unidentified_papers(PaperIDTask) :
          RunLapSolverStart(unidentified_papers)
    \/ RunLapSolver
    \/ ForegroundReturns
    \/ \E p \in Papers, sid \in Enrolled : IdentifyPaper(p, sid)

SpecKeep == Init /\ [][NextKeep]_vars

\* ------------------------------------------------------------ from the scans to the matrices
\* The scans: the box not found, the box too small, or a box with the ID
\* of an enrolled student written in it or with some cell empty.
BoxCells ==
    {c \in [IdPositions -> Digits \cup {Blank}] :
        (\A i \in IdPositions : c[i] # Blank) => c \in Enrolled}
IdPages ==
    {ScannedPage(FALSE, TRUE, StudentA), ScannedPage(TRUE, FALSE, StudentA)}
    \cup {ScannedPage(TRUE, TRUE, c) : c \in BoxCells}

\* student_number_length = 8, scaled down to the positions of an ID.
student_number_length == Cardinality(IdPositions)

\* RectangleExtractor.extract_rect_region: the bytes of the box (TRUE), or
\* None (FALSE) when no transform can be computed for the page.
extract_rect_region(page) == page.region

\* resize_ID_box_and_extract_digit_strip: the strip of digit cells, or None
\* (the empty strip) when the box is too small.
resize_ID_box_and_extract_digit_strip(page) == IF page.big THEN page.cells ELSE <<>>

\* A segmenter that returns the digits found before the first empty cell.
RECURSIVE DigitsBeforeBlank(_, _)
DigitsBeforeBlank(ID_box, digit_index) ==
    IF digit_index > Len(ID_box) \/ ID_box[digit_index] = Blank THEN <<>>
    ELSE <<ID_box[digit_index]>> \o DigitsBeforeBlank(ID_box, digit_index + 1)

get_digit_images_partial(ID_box, num_digits) == DigitsBeforeBlank(ID_box, 1)

\* get_digit_images: the loop over the num_digits cells returns [] at the
\* first cell without a contour, else every cell's digit image.
get_digit_images(ID_box, num_digits) ==
    IF \E digit_index \in 1..num_digits : ID_box[digit_index] = Blank THEN <<>>
    ELSE [digit_index \in 1..num_digits |-> ID_box[digit_index]]

\* get_digit_probabilities: [] for no strip or no digit images, else one
\* probability vector per digit image.
get_digit_probabilities(page, num_digits) ==
    LET ID_box == resize_ID_box_and_extract_digit_strip(page)
    IN IF ID_box = <<>> THEN <<>>
       ELSE LET processed_digits_images == get_digit_images(ID_box, num_digits)
            IN [n \in 1..Len(processed_digits_images) |->
                   predict_proba(processed_digits_images[n], <<90, 10>>)]

\* compute_probability_heatmap_for_idbox_images: the papers whose list of
\* probabilities is empty are left out.
compute_probability_heatmap_for_idbox_images(pages, image_file_paths, num_digits) ==
    LET prob_lists == [p \in image_file_paths |-> get_digit_probabilities(pages[p], num_digits)]
    IN [p \in {q \in image_file_paths : Len(prob_lists[q]) # 0} |-> prob_lists[p]]

\* A loop that stops at the first paper for which the extractor gives None.
id_boxes_until_none(pages, paper_numbers) ==
    {pn \in paper_numbers :
        \A qn \in paper_numbers : qn <= pn => extract_rect_region(pages[qn])}

\* save_all_id_boxes' loop over paper_numbers: the papers that get a file
\* and an entry of img_file_dict; the others are passed over (continue).
id_boxes_extracted(pages, paper_numbers) ==
    {pn \in paper_numbers : extract_rect_region(pages[pn])}

\* The ID page of a paper is scanned and pushed, between invocations.
ScanPage(p, page) ==
    /\ pc = "idle"
    /\ ~id_pages[p].scanned
    /\ id_pages' = [id_pages EXCEPT ![p] = page]
    /\ UNCHANGED <<reader_vars, mark_vars, id_box_folder, race_vars, scan_vars, chore_vars,
                   prep_vars>>

\* run_the_id_reader_in_foreground, to the return of save_all_id_boxes: the
\* loop over the scanned papers that are not prenamed writes a file and adds
\* the paper to the map when the extractor gives a box, and goes on to the
\* next paper when it gives None.
SaveBoxes(recompute) ==
    /\ pc = "idle"
    /\ runs < MaxRuns
    /\ runs' = runs + 1
    /\ LET prenamed_papers == get_prenamed_paper_numbers(IDPrediction)
           paper_numbers == {pn \in Papers : id_pages[pn].scanned /\ pn \notin prenamed_papers}
           extracted == id_boxes_extracted(id_pages, paper_numbers)
       IN /\ id_box_folder' = id_box_folder \cup extracted
          /\ img_file_dict' = extracted
    /\ recompute_heatmap' = recompute
    /\ pc' = "boxes"
    /\ error' = "none"
    /\ UNCHANGED <<db_vars, task, probabilities, student_ids, papers_to_id, greedy_predictions,
                   lap_predictions, written, at_start>>
    /\ UNCHANGED <<mark_vars, id_pages, race_vars, scan_vars, chore_vars, prep_vars>>

\* make_id_predictions with the heatmap computed from the box files of this
\* invocation, or read from the file.
ReadBoxes(model) ==
    MakeIdPredictions(
        IF recompute_heatmap /\ model = "loaded"
        THEN compute_probability_heatmap_for_idbox_images(
                 id_pages, img_file_dict, student_number_length)
        ELSE heatmap_file.data,
        model)

NextPages ==
    \/ \E p \in Papers, page \in IdPages : ScanPage(p, page)
    \/ \E p \in Papers : AddPrename(p)
    \/ \E recompute \in BOOLEAN : SaveBoxes(recompute)
    \/ \E model \in ModelOutcomes : ReadBoxes(model)
    \/ RunGreedy
    \/ \E unidentified_papers \in get_unidentified_papers(PaperIDTask) :
          RunLapSolverStart(unidentified_papers)
    \/ RunLapSolver
    \/ ForegroundReturns

SpecPages == Init /\ [][NextPages]_vars

\* ------------------------------------------------------------ overlapping calls on the table
\* add_or_change_ID_prediction called by several callers at once (two workers,
\* each in run_greedy or run_lap_solver, or the command beside a worker).
\* Each call is a transaction of two statements, the SELECT of
\* IDPrediction.objects.get and the INSERT or UPDATE of save(); the table
\* has no unique constraint, and under the database's read-committed
\* isolation a call sees the rows of the calls that have committed.
MaxCalls == 2

\* Lines 126-130: the call looks for the row of its key.
GetPrediction(c, paper_num, student_id, predictor) ==
    /\ pc = "table"
    /\ calls[c].at = "idle"
    /\ calls[c].made < MaxCalls
    /\ calls' = [calls EXCEPT ![c] =
           IF MultipleObjectsReturned(IDPrediction, paper_num, predictor)
           THEN [NoCall EXCEPT !.made = calls[c].made + 1,
                               !.raised = "MultipleObjectsReturned"]
           ELSE [at |-> "save", paper_num |-> paper_num, student_id |-> student_id,
                 predictor |-> predictor,
                 existing_pred |-> RowCount(IDPrediction, paper_num, predictor) = 1,
                 made |-> calls[c].made + 1, raised |-> "none"]]
    /\ UNCHANGED <<reader_vars, mark_vars, page_vars, scan_vars, chore_vars, prep_vars>>

\* Lines 131-143 and the commit: a new row when the call found none, else
\* the row it found (a row of its key) is changed.
SavePrediction(c) ==
    /\ pc = "table"
    /\ calls[c].at = "save"
    /\ LET call == calls[c]
           new == Row(call.paper_num, call.predictor, call.student_id, 90)
           old == CHOOSE r \in Rows(IDPrediction, call.paper_num, call.predictor) : TRUE
       IN IDPrediction' = IF call.existing_pred
                          THEN (IDPrediction (-) SetToBag({old})) (+) SetToBag({new})
                          ELSE IDPrediction (+) SetToBag({new})
    /\ calls' = [calls EXCEPT ![c] = [NoCall EXCEPT !.made = calls[c].made]]
    /\ UNCHANGED <<PaperIDTask, classlist, heatmap_file, trackers, run_vars>>
    /\ UNCHANGED <<mark_vars, page_vars, scan_vars, chore_vars, prep_vars>>

NextRace ==
    \/ \E c \in Callers, p \in Papers, sid \in Enrolled, predictor \in {MLGreedy, MLLAP} :
          GetPrediction(c, p, sid, predictor)
    \/ \E c \in Callers : SavePrediction(c)

SpecRace == InitTable /\ [][NextRace]_vars

\* ------------------------------------------------------------ casting staging images
\* ScanCastService on the images of one bundle that is neither locked nor
\* pushed (check_bundle_object_is_neither_locked_nor_pushed passes).  Every
\* operation is one transaction and locks the image row (select_for_update):
\* a call that raises leaves the tables as they were.
DISCARD == "discard"
UNKNOWN == "unknown"
EXTRA == "extra"
KNOWN == "known"
ERROR == "error"
ImageTypes == {DISCARD, UNKNOWN, EXTRA, KNOWN, ERROR, UNREAD}
None == "None"

NumPages == 2
PageNumbers == 1..NumPages

\* A row of DiscardStagingImage, UnknownStagingImage, ExtraStagingImage,
\* KnownStagingImage or ErrorStagingImage.
Detail(i, table, paper_number, page_number) ==
    [staging_image |-> i, table |-> table,
     paper_number |-> paper_number, page_number |-> page_number]

\* The bundles as the reading of the QR codes leaves them: each image unread,
\* or unknown, extra, error or known with its row; no two known images with
\* the same paper and page.
ReadDetails == {Detail(0, t, 0, 0) : t \in {UNREAD, UNKNOWN, EXTRA, ERROR}}
                  \cup {Detail(0, KNOWN, pn, pg) : pn \in Papers, pg \in PageNumbers}
ReadBundles ==
    {b \in [Images -> ReadDetails] :
        \A i, j \in Images : (i # j /\ b[i].table = KNOWN) => b[i] # b[j]}

InitCast ==
    /\ InitReader
    /\ InitMark /\ InitPages /\ InitCalls /\ InitChores /\ InitPrep
    /\ cast = NoCast
    /\ \E b \in ReadBundles :
          /\ StagingImage = [i \in Images |-> b[i].table]
          /\ details = {Detail(i, b[i].table, b[i].paper_number, b[i].page_number) :
                            i \in {j \in Images : b[j].table # UNREAD}}

\* The old row stays.
KeepDetail(rows, i, table) == rows

\* img.discardstagingimage.delete() and its like: the image's row of the
\* table of its old type goes.
DeleteDetail(rows, i, table) == {d \in rows : ~(d.staging_image = i /\ d.table = table)}

Casts(op, i, raised) == [op |-> op, img |-> i, raised |-> raised]

\* discard_, unknowify_ and extralise_image_type_from_bundle, which differ in
\* the type they cast to: image_type is the caller's idea of the current
\* type, or None.
CastImage(op, target, i, image_type) ==
    LET current == IF image_type = None THEN StagingImage[i] ELSE image_type
    IN /\ IF \/ current = target
             \/ current \notin {DISCARD, UNKNOWN, KNOWN, EXTRA, ERROR}
             \/ StagingImage[i] # current
          THEN /\ cast' = Casts(op, i, "ValueError")
               /\ UNCHANGED <<StagingImage, details>>
          ELSE /\ cast' = Casts(op, i, "none")
               /\ StagingImage' = [StagingImage EXCEPT ![i] = target]
               /\ details' = DeleteDetail(details, i, current) \cup {Detail(i, target, 0, 0)}
       /\ UNCHANGED <<reader_vars, mark_vars, page_vars, race_vars, chore_vars, prep_vars>>

discard_image_type_from_bundle(i, image_type) == CastImage("discard", DISCARD, i, image_type)

unknowify_image_type_from_bundle(i, image_type) == CastImage("unknowify", UNKNOWN, i, image_type)

extralise_image_type_from_bundle(i, image_type) == CastImage("extralise", EXTRA, i, image_type)

\* knowify_image_from_bundle; in_database says whether
\* PaperInfoService.get_version_from_paper_page finds the page or raises.
knowify_image_from_bundle(i, paper_number, page_number, in_database) ==
    /\ IF StagingImage[i] \notin {UNKNOWN, DISCARD}
       THEN /\ cast' = Casts("knowify", i, "ValueError")
            /\ UNCHANGED <<StagingImage, details>>
       ELSE IF \E d \in details : /\ d.table = KNOWN
                                   /\ StagingImage[d.staging_image] = KNOWN
                                   /\ d.paper_number = paper_number
                                   /\ d.page_number = page_number
       THEN /\ cast' = Casts("knowify", i, "ValueError")
            /\ UNCHANGED <<StagingImage, details>>
       ELSE IF ~in_database
       THEN /\ cast' = Casts("knowify", i, "get_version_from_paper_page")
            /\ UNCHANGED <<StagingImage, details>>
       ELSE /\ cast' = Casts("knowify", i, "none")
            /\ details' = DeleteDetail(details, i, StagingImage[i])
                              \cup {Detail(i, KNOWN, paper_number, page_number)}
            /\ StagingImage' = [StagingImage EXCEPT ![i] = KNOWN]
    /\ UNCHANGED <<reader_vars, mark_vars, page_vars, race_vars, chore_vars, prep_vars>>

NextCast ==
    \/ \E i \in Images, image_type \in ImageTypes \cup {None} :
          discard_image_type_from_bundle(i, image_type)
    \/ \E i \in Images, image_type \in ImageTypes \cup {None} :
          unknowify_image_type_from_bundle(i, image_type)
    \/ \E i \in Images, image_type \in ImageTypes \cup {None} :
          extralise_image_type_from_bundle(i, image_type)
    \/ \E i \in Images, pn \in Papers, pg \in PageNumbers, in_database \in BOOLEAN :
          knowify_image_from_bundle(i, pn, pg, in_database)

SpecCast == InitCast /\ [][NextCast]_vars

\* ------------------------------------------------------------ populating and evacuating the database
\* add_all_papers_in_qv_map and remove_all_papers_from_db, in the background,
\* requested from several web requests or commands at once; the preparation
\* dependencies are met (assert_can_modify_qv_mapping_database passes).
MaxRequests == 2
POPULATE == "populate"
EVACUATE == "evacuate"

NonObsolete(rows) == {k \in DOMAIN rows : ~rows[k].obsolete}

\* The request down to the return of assert_no_existing_chore:
\* PopulateEvacuateDBChore.objects.get(obsolete=False) finds no row (pass),
\* one row (PlomDatabaseCreationError) or several (MultipleObjectsReturned,
\* which the except clause does not catch).
AssertNoExistingChore(r, action) ==
    /\ requests[r].at = "idle"
    /\ requests[r].made < MaxRequests
    /\ LET made == requests[r].made + 1
           underway == Cardinality(NonObsolete(chores))
           raised == IF action = POPULATE /\ Paper # {} THEN "PlomDatabaseCreationError"
                     ELSE IF underway = 1 THEN "PlomDatabaseCreationError"
                     ELSE IF underway > 1 THEN "MultipleObjectsReturned"
                     ELSE "none"
       IN requests' = [requests EXCEPT ![r] =
              IF raised # "none"
              THEN [NoRequest EXCEPT !.made = made, !.raised = raised]
              ELSE [at |-> "checked", action |-> action, made |-> made, raised |-> "none"]]
    /\ UNCHANGED <<chores, enqueued, Paper>>
    /\ UNCHANGED <<reader_vars, mark_vars, page_vars, race_vars, scan_vars, prep_vars>>

\* populate_whole_db_huey_wrapper and evacuate_whole_db_huey_wrapper: the
\* chore is created in a transaction of its own, then the task is enqueued
\* and the chore is marked queued.
CreateChore(r) ==
    /\ requests[r].at = "checked"
    /\ chores' = Append(chores, [action |-> requests[r].action, status |-> Starting,
                                 obsolete |-> FALSE])
    /\ enqueued' = enqueued \cup {Len(chores) + 1}
    /\ requests' = [requests EXCEPT ![r] = [NoRequest EXCEPT !.made = requests[r].made]]
    /\ UNCHANGED Paper
    /\ UNCHANGED <<reader_vars, mark_vars, page_vars, race_vars, scan_vars, prep_vars>>

\* PopulateEvacuateDBChore.transition_to_queued_or_running, the wrapper's
\* last line.
ChoreQueued(k) ==
    /\ chores[k].status = Starting
    /\ chores' = [chores EXCEPT ![k].status = Queued]
    /\ UNCHANGED <<requests, enqueued, Paper>>
    /\ UNCHANGED <<reader_vars, mark_vars, page_vars, race_vars, scan_vars, prep_vars>>

\* huey_populate_whole_db and huey_evacuate_whole_db, first line.
ChoreRuns(k) ==
    /\ k \in enqueued
    /\ chores[k].status \in {Starting, Queued}
    /\ chores' = [chores EXCEPT ![k].status = Running]
    /\ UNCHANGED <<requests, enqueued, Paper>>
    /\ UNCHANGED <<reader_vars, mark_vars, page_vars, race_vars, scan_vars, prep_vars>>

\* The rest of the task: the papers are made or deleted, the chore is
\* complete and then obsolete.
ChoreCompletes(k) ==
    /\ chores[k].status = Running
    /\ Paper' = IF chores[k].action = POPULATE THEN Papers ELSE {}
    /\ chores' = [chores EXCEPT ![k].status = Complete, ![k].obsolete = TRUE]
    /\ UNCHANGED <<requests, enqueued>>
    /\ UNCHANGED <<reader_vars, mark_vars, page_vars, race_vars, scan_vars, prep_vars>>

InitChoreSpec == InitReader /\ InitOther

NextChores ==
    \/ \E r \in Requesters, action \in {POPULATE, EVACUATE} : AssertNoExistingChore(r, action)
    \/ \E r \in Requesters : CreateChore(r)
    \/ \E k \in DOMAIN chores : ChoreQueued(k)
    \/ \E k \in DOMAIN chores : ChoreRuns(k)
    \/ \E k \in DOMAIN chores : ChoreCompletes(k)

SpecChores == InitChoreSpec /\ [][NextChores]_vars

\* ------------------------------------------------------------ unsetting papers-printed
NumBundles == 4
BundleIds == 1..NumBundles

\* assert_can_unset_papers_printed: its first statement after the imports
\* returns whether no bundle exists; the raise below it is never reached.
assert_can_unset_papers_printed(staging, pushed) ==
    Returned(~(staging # {} \/ pushed # {}))

\* can_unset_papers_printed: True unless the assert raises
\* PlomDependencyConflict.
can_unset_papers_printed(staging, pushed) ==
    IF assert_can_unset_papers_printed(staging, pushed).raised = "PlomDependencyConflict"
    THEN FALSE
    ELSE TRUE

\* Any bundles uploaded, some of them pushed (a pushed bundle keeps its
\* staging bundle).
InitUnset ==
    /\ InitReader
    /\ InitMark /\ InitPages /\ InitCalls /\ InitScan /\ InitChores
    /\ StagingBundle \in SUBSET BundleIds
    /\ Bundle \in SUBSET StagingBundle
    /\ unset_check = NotAsked

CallAssertCanUnset ==
    /\ unset_check' =
          LET r == assert_can_unset_papers_printed(StagingBundle, Bundle)
          IN [called |-> "assert_can_unset_papers_printed", raised |-> r.raised,
              value |-> r.value]
    /\ UNCHANGED <<StagingBundle, Bundle>>
    /\ UNCHANGED <<reader_vars, mark_vars, page_vars, race_vars, scan_vars, chore_vars>>

CallCanUnset ==
    /\ unset_check' = [called |-> "can_unset_papers_printed", raised |-> "none",
                       value |-> can_unset_papers_printed(StagingBundle, Bundle)]
    /\ UNCHANGED <<StagingBundle, Bundle>>
    /\ UNCHANGED <<reader_vars, mark_vars, page_vars, race_vars, scan_vars, chore_vars>>

NextUnset == CallAssertCanUnset \/ CallCanUnset

SpecUnset == InitUnset /\ [][NextUnset]_vars

\* ------------------------------------------------------------ saving annotations
MaxAnnotations == 6

\* An annotation whose edition does not follow the task's latest one.
FirstEdition(annotations, latest) == 1

\* _create_new_annotation_in_database, lines 76-79: the edition after the
\* task's latest annotation, 1 when the task has none.
NextEdition(annotations, latest) ==
    LET last_annotation_edition == IF latest # 0 THEN annotations[latest].edition ELSE 0
    IN last_annotation_edition + 1

\* create_new_annotation_in_database, one transaction: the annotation image
\* is saved (ValueError on an unsupported image type), then the annotation is
\* saved with its edition and becomes the task's latest annotation.  A call
\* that raises is rolled back.
CreateNewAnnotation(t, image_type) ==
    /\ Len(Annotation) < MaxAnnotations
    /\ IF image_type \in {"png", "jpg", "jpeg"}
       THEN /\ Annotation' = Append(Annotation,
                   [task |-> t, edition |-> NextEdition(Annotation, MarkingTask[t])])
            /\ MarkingTask' = [MarkingTask EXCEPT ![t] = Len(Annotation) + 1]
       ELSE UNCHANGED mark_vars
    /\ UNCHANGED <<reader_vars, page_vars, race_vars, scan_vars, chore_vars, prep_vars>>

InitAnnotations == InitReader /\ InitOther

NextAnnotations ==
    \E t \in MarkingTasks, image_type \in {"png", "jpg", "gif"} : CreateNewAnnotation(t, image_type)

SpecAnnotations == InitAnnotations /\ [][NextAnnotations]_vars

\* ------------------------------------------------------------ claims
\* C1: the predictions of one call of the global-optimal strategy are a
\* one-to-one matching: no paper in two predictions, no student ID given to
\* two papers.
C1_LapOneToOne ==
    lap_predictions.raised = "none" =>
        \A i, j \in DOMAIN lap_predictions.value :
            i # j => /\ lap_predictions.value[i][1] # lap_predictions.value[j][1]
                     /\ lap_predictions.value[i][2] # lap_predictions.value[j][2]

\* Two papers with the same matrix compete for one student and both are matched.
C1_Witness ==
    /\ lap_predictions.raised = "none"
    /\ Len(lap_predictions.value) >= 2
    /\ probabilities[1] = probabilities[2]

\* The cost of matching a paper with a student ID.
PairCost(pn, sid) ==
    assemble_cost_matrix(<<pn>>, <<sid>>, probabilities)[1][1]

PredictedCost(preds) == SumSeq([i \in 1..Len(preds) |-> PairCost(preds[i][1], preds[i][2])])

\* C2: the total cost of the pairs chosen by the global-optimal strategy is
\* at most that of every one-to-one assignment of min(#papers, #students)
\* papers.
C2_LapMinimalCost ==
    lap_predictions.raised = "none" =>
        LET cost == assemble_cost_matrix(papers_to_id, student_ids, probabilities)
            chosen == PredictedCost(lap_predictions.value)
        IN /\ Len(lap_predictions.value) =
                 (IF Len(papers_to_id) <= Len(student_ids)
                  THEN Len(papers_to_id) ELSE Len(student_ids))
           /\ \A g \in Assignments(Len(papers_to_id), Len(student_ids)) :
                 chosen <= SumFun([r \in DOMAIN g |-> cost[r][g[r]]])

\* The cheapest total is not the row-by-row cheapest: paper 1 would take the
\* student that paper 2 needs far more.
C2_Witness ==
    /\ lap_predictions.raised = "none"
    /\ Len(lap_predictions.value) = 2
    /\ \E c \in DOMAIN student_ids :
          /\ \A d \in DOMAIN student_ids :
                PairCost(1, student_ids[c]) <= PairCost(1, student_ids[d])
          /\ lap_predictions.value[1][2] # student_ids[c]
          /\ PairCost(1, lap_predictions.value[1][2]) > PairCost(1, student_ids[c])

Score(pn, sid) == Prod(digit_probs(probabilities[pn], sid))

\* C3: the greedy strategy returns, for every paper with a matrix, the
\* roster entry at the first index where the geometric-mean score is
\* maximal.
C3_GreedyFirstMax ==
    greedy_predictions.raised = "none" =>
        /\ {greedy_predictions.value[k][1] : k \in DOMAIN greedy_predictions.value}
              = DOMAIN probabilities
        /\ \A k \in DOMAIN greedy_predictions.value :
              LET pn == greedy_predictions.value[k][1]
                  sid == greedy_predictions.value[k][2]
              IN \E i \in DOMAIN student_ids :
                    /\ student_ids[i] = sid
                    /\ \A j \in DOMAIN student_ids :
                          Score(pn, student_ids[j]) <= Score(pn, sid)
                    /\ \A j \in 1..(i - 1) :
                          Score(pn, student_ids[j]) < Score(pn, sid)

\* A tie: two roster entries share the maximal score and the first is taken.
C3_Witness ==
    /\ greedy_predictions.raised = "none"
    /\ Len(student_ids) >= 2
    /\ \E k \in DOMAIN greedy_predictions.value :
          /\ Score(greedy_predictions.value[k][1], student_ids[1])
               = Score(greedy_predictions.value[k][1], student_ids[2])
          /\ greedy_predictions.value[k][2] = student_ids[1]

\* C7: with an empty roster and a paper that has a matrix, the greedy
\* strategy returns no prediction and does not fail.
C7_GreedyEmptyRosterReturnsNothing ==
    (/\ greedy_predictions # NotCalled
     /\ student_ids = <<>>
     /\ DOMAIN probabilities # {})
        => greedy_predictions = Returned(<<>>)

\* C4: the table holds at most one row for each (paper, predictor); a call
\* for a key that has a row changes that row instead of adding one.
C4_AtMostOneRow ==
    \A p \in Papers, predictor \in {MLGreedy, MLLAP, Prename} :
        RowCount(IDPrediction, p, predictor) <= 1

\* A call found a row under its key, and the key now holds the command's
\* values where a strategy's were.
C4_Witness ==
    /\ written = 1
    /\ RowCount(IDPrediction, 1, MLGreedy) = 1
    /\ Rows(IDPrediction, 1, MLGreedy) = {Row(1, MLGreedy, StudentB, 50)}
    /\ RowCount(IDPrediction, 1, Prename) = 1

\* The rows of the other predictors.
OtherRows(table, predictor) ==
    [r \in {x \in BagToSet(table) : x.predictor # predictor} |-> table[r]]

\* C5: a run of the greedy strategy leaves every row that is not MLGreedy as
\* it was, a run of the global-optimal strategy every row that is not MLLAP.
C5_StrategiesKeepOtherRows ==
    [][/\ pc \in {"boxes", "greedy"} =>
             OtherRows(IDPrediction', MLGreedy) = OtherRows(IDPrediction, MLGreedy)
       /\ pc \in {"lap", "lap_write"} =>
             OtherRows(IDPrediction', MLLAP) = OtherRows(IDPrediction, MLLAP)]_vars

\* The greedy strategy has saved its rows in a table that held a prename
\* row and an MLLAP row of an earlier run.
C5_Witness ==
    /\ pc = "lap"
    /\ runs = 2
    /\ written >= 1
    /\ \E r \in BagToSet(IDPrediction) : r.predictor = Prename
    /\ \E r \in BagToSet(IDPrediction) : r.predictor = MLLAP
    /\ \E r \in BagToSet(IDPrediction) : r.predictor = MLGreedy

\* The papers run_lap_solver is to resolve and the students left for them.
PapersToResolve == {p \in Papers : PaperIDTask[p].status = TODO /\ p \in DOMAIN probabilities}
MatchedSids == {PaperIDTask[p].student_id : p \in {q \in Papers : PaperIDTask[q].status = COMPLETE}}
StudentsLeft == Range(student_ids) \ MatchedSids

\* C6: with no paper to resolve, or no student left, run_lap_solver raises
\* and no prediction row is written or changed.
C6_DegenerateRaises ==
    [][(pc = "lap" /\ pc' # "lap" /\ (PapersToResolve = {} \/ StudentsLeft = {}))
          => (error' = "IndexError" /\ pc' = "idle" /\ IDPrediction' = IDPrediction)]_vars

\* The roster is used up by the identifications while a paper with a matrix
\* is still to be identified.
C6_Witness ==
    /\ error = "IndexError"
    /\ runs = 1
    /\ classlist # <<>>
    /\ \E p \in Papers : PaperIDTask[p].status = TODO /\ p \in DOMAIN heatmap_file.data

\* C8: while an ID-reading task is Starting, Queued or Running, a request to
\* start the reader creates no second tracker row.
C8_SingleFlight ==
    Cardinality({k \in DOMAIN trackers : trackers[k].status \in InFlight}) <= 1

\* C9: during and after the pipeline, a paper for which the latest
\* extraction gave no ID box has no matrix in use and no MLGreedy or MLLAP row.
C9_NoBoxNoMatrixNoPrediction ==
    pc \in {"boxes", "greedy", "lap", "lap_write", "done"} =>
        \A p \in Papers \ img_file_dict :
            /\ p \notin DOMAIN probabilities
            /\ RowCount(IDPrediction, p, MLGreedy) = 0
            /\ RowCount(IDPrediction, p, MLLAP) = 0

\* C10: a row written by run_lap_solver is for a paper that had no completed
\* identification when the call started and names a student ID of no
\* identification completed by then.
C10_LapSkipsIdentified ==
    [][pc = "lap_write" =>
          \A r \in BagToSet(IDPrediction') \ BagToSet(IDPrediction) :
              /\ at_start[r.paper].status # COMPLETE
              /\ \A q \in Papers :
                    at_start[q].status = COMPLETE => at_start[q].student_id # r.student_id]_vars

\* An identified paper has a matrix and its student is on the class list,
\* and run_lap_solver has saved a row.
C10_Witness ==
    /\ pc \in {"lap_write", "done"}
    /\ written >= 1
    /\ \E q \in Papers :
          /\ at_start[q].status = COMPLETE
          /\ at_start[q].student_id \in Range(classlist)
          /\ q \in DOMAIN probabilities

\* C11: the rows run_greedy saves (the predictions it computes on entry,
\* saved one by one) are for papers with no completed identification at
\* that time and name student IDs of no completed identification.
C11_GreedySkipsIdentified ==
    [][(pc = "boxes" /\ pc' = "greedy") =>
          \A i \in DOMAIN greedy_predictions'.value :
              LET prediction == greedy_predictions'.value[i]
              IN /\ PaperIDTask[prediction[1]].status # COMPLETE
                 /\ prediction[2] \notin MatchedSids]_vars

\* C12: when the classifier cannot be loaded, the invocation fails with no
\* ID box extracted or written and no page segmented or classified.
C12_ModelFailureBeforePages ==
    [][(pc = "boxes" /\ error' = "ModelLoadError") =>
          (img_file_dict = {} /\ probabilities = EmptyMap)]_vars

\* What run_the_id_reader_in_foreground hands back to its caller: it has no
\* return statement, and save_all_id_boxes and the heatmap loop leave a
\* paper out with a bare continue.
ForegroundResult == [summary |-> FALSE, resolved |-> 0, no_region |-> 0, no_digits |-> 0]

\* The papers a run left out, by reason, and the papers it predicted for.
NoRegion == (Papers \ get_prenamed_paper_numbers(IDPrediction)) \ img_file_dict
NoDigits == img_file_dict \ DOMAIN probabilities
Resolved == DOMAIN probabilities

\* C13: a run that left papers out hands its caller a summary with the
\* number of papers resolved and the number left out for each reason.
C13_ExcludedPapersReported ==
    (pc = "done" /\ recompute_heatmap /\ (NoRegion # {} \/ NoDigits # {})) =>
        /\ ForegroundResult.summary
        /\ ForegroundResult.resolved = Cardinality(Resolved)
        /\ ForegroundResult.no_region = Cardinality(NoRegion)
        /\ ForegroundResult.no_digits = Cardinality(NoDigits)

\* What run_lap_solver computes when the query gives the unidentified
\* papers in the order given.
LapResult(unidentified_papers) ==
    LET remaining == RemoveAll(student_ids, get_already_matched_sids(PaperIDTask))
        papers == Filter(unidentified_papers, DOMAIN probabilities)
    IN IF Degenerate(papers, remaining) THEN Raised("IndexError")
       ELSE lap_predictor(papers, remaining, probabilities)

\* C14: from the same matrices, roster and identified papers a strategy
\* returns the same list of predictions in the same order, whatever the
\* order in which a query without ordering gives its rows.
C14_ResultIndependentOfQueryOrder ==
    pc = "lap" =>
        \A o1, o2 \in get_unidentified_papers(PaperIDTask) : LapResult(o1) = LapResult(o2)

\* The table after the loop of a strategy has saved the predictions from the
\* i-th on; the loop ends where add_or_change_ID_prediction raises.
RECURSIVE SaveFrom(_, _, _, _)
SaveFrom(table, predictions, predictor, i) ==
    IF i > Len(predictions) THEN table
    ELSE IF MultipleObjectsReturned(table, predictions[i][1], predictor) THEN table
    ELSE SaveFrom(add_or_change_ID_prediction(table, predictions[i][1], predictions[i][2],
                                              predictions[i][3], predictor),
                  predictions, predictor, i + 1)

\* run_greedy as one call: the table it leaves.
run_greedy(table, student_IDs, probs) ==
    LET result == greedy_predictor(student_IDs, probs)
    IN IF result.raised # "none" THEN table
       ELSE SaveFrom(table, result.value, MLGreedy, 1)

\* C15: when run_greedy has run, running it again on the same matrices and
\* roster leaves the table as it is: same MLGreedy rows, no second row.
C15_GreedyIdempotent ==
    pc = "lap" => run_greedy(IDPrediction, classlist, probabilities) = IDPrediction

\* run_greedy has saved a row for each of two papers.
C15_Witness ==
    /\ pc = "lap"
    /\ written = 2
    /\ RowCount(IDPrediction, 1, MLGreedy) = 1
    /\ RowCount(IDPrediction, 2, MLGreedy) = 1

\* The computation of a strategy fails for some paper of the heatmap.
GreedyFails ==
    \E p \in DOMAIN heatmap_file.data :
        classlist = <<>> \/ \E k \in DOMAIN classlist : Len(classlist[k]) > Len(heatmap_file.data[p])
LapFails ==
    \E p \in DOMAIN heatmap_file.data, k \in DOMAIN classlist :
        Len(classlist[k]) # Len(heatmap_file.data[p])

\* The papers of a list of predictions.
PredictedPapers(predictions) == {predictions[i][1] : i \in DOMAIN predictions}

\* C16: a strategy writes a row only when it has computed its predictions
\* for every paper it covers, and a run whose computation fails for some
\* paper writes no row of that strategy.
C16_WriteAfterAllComputed ==
    [][/\ IDPrediction' # IDPrediction =>
             \/ /\ pc = "greedy"
                /\ greedy_predictions.raised = "none"
                /\ PredictedPapers(greedy_predictions.value) = DOMAIN probabilities
             \/ /\ pc = "lap_write"
                /\ lap_predictions.raised = "none"
                /\ \/ PredictedPapers(lap_predictions.value) = Range(papers_to_id)
                   \/ Len(lap_predictions.value) = Len(student_ids)
       /\ GreedyFails' => \A p \in Papers : RowCount(IDPrediction', p, MLGreedy) = 0
       /\ LapFails' => \A p \in Papers : RowCount(IDPrediction', p, MLLAP) = 0]_vars

\* The greedy strategy has saved its rows, and the other strategy failed on
\* matrices longer than the student IDs and saved none.
C16_Witness ==
    /\ pc = "idle"
    /\ error = "ValueError"
    /\ LapFails
    /\ \E p \in Papers : RowCount(IDPrediction, p, MLGreedy) = 1
    /\ \A p \in Papers : RowCount(IDPrediction, p, MLLAP) = 0

\* C17: in a run that reuses the cached matrices, every student ID a
\* strategy predicts is on the class list as it is during that run.
C17_RerunUsesCurrentRoster ==
    (~recompute_heatmap /\ pc \in {"greedy", "lap", "lap_write", "done"}) =>
        /\ \A i \in DOMAIN greedy_predictions.value :
              greedy_predictions.value[i][2] \in Range(classlist)
        /\ \A i \in DOMAIN lap_predictions.value :
              lap_predictions.value[i][2] \in Range(classlist)

\* A re-run on cached matrices has its predictions while the table still
\* holds a row of the earlier run for a student no longer on the class list.
C17_Witness ==
    /\ ~recompute_heatmap
    /\ pc = "done"
    /\ greedy_predictions.value # <<>>
    /\ lap_predictions.value # <<>>
    /\ \E r \in BagToSet(IDPrediction) : r.student_id \notin Range(classlist)

\* C18: every entry of the cost matrix is finite; a probability of 0 at a
\* digit of the candidate adds the cost of the floor 1e-30.
C18_CostsFinite ==
    LET cost == assemble_cost_matrix(papers_to_id, student_ids, probabilities)
    IN \A r \in DOMAIN papers_to_id, c \in DOMAIN student_ids :
          LET M == probabilities[papers_to_id[r]]
              sid == student_ids[c]
          IN /\ cost[r][c] < Infinite
             /\ cost[r][c] = SumSeq([i \in 1..Len(sid) |->
                                 IF M[i][sid[i]] = 0 THEN NegLog(FloorProb)
                                 ELSE NegLog(M[i][sid[i]])])

\* The solver has run on a matrix that gives a digit of a candidate the
\* probability 0.
C18_Witness ==
    /\ lap_predictions.raised = "none"
    /\ lap_predictions.value # <<>>
    /\ \E r \in DOMAIN papers_to_id, c \in DOMAIN student_ids, i \in IdPositions :
          probabilities[papers_to_id[r]][i][student_ids[c][i]] = 0

\* C19: the greedy prediction for a paper is the one the paper gets in a
\* batch of its own with the same roster, whatever the other papers of the
\* batch and their predictions are.
C19_GreedyPerPaper ==
    greedy_predictions.raised = "none" =>
        \A i \in DOMAIN greedy_predictions.value :
            LET p == greedy_predictions.value[i][1]
                alone == greedy_predictor(student_ids, [q \in {p} |-> probabilities[p]])
            IN /\ alone.raised = "none"
               /\ greedy_predictions.value[i] = alone.value[1]

\* Two papers of a batch are given the same student ID though the roster
\* has another.
C19_Witness ==
    /\ greedy_predictions.raised = "none"
    /\ Len(greedy_predictions.value) = 2
    /\ Len(student_ids) = 2
    /\ greedy_predictions.value[1][2] = greedy_predictions.value[2][2]
    /\ probabilities[1] # probabilities[2]

\* C20: every row of the prediction table has a certainty from 0 to 1.
C20_CertaintyInUnitInterval ==
    \A r \in BagToSet(IDPrediction) : 0 <= r.certainty /\ r.certainty <= 100

\* C21: every call that saves a new annotation gives it the edition after the
\* task's latest one (1 when the task has none) and makes it the task's
\* latest annotation; a task's editions are strictly increasing in the order
\* they were saved, and its latest annotation has the largest of them.
EditionsOf(annotations, t) ==
    LET idx == SortedSeq({i \in DOMAIN annotations : annotations[i].task = t})
    IN [k \in DOMAIN idx |-> annotations[idx[k]].edition]

C21_EditionsIncrease ==
    [][Len(Annotation') > Len(Annotation) =>
          LET new == Annotation'[Len(Annotation')]
              editions == EditionsOf(Annotation', new.task)
          IN /\ new.edition = IF MarkingTask[new.task] = 0 THEN 1
                              ELSE Annotation[MarkingTask[new.task]].edition + 1
             /\ MarkingTask'[new.task] = Len(Annotation')
             /\ \A i, j \in DOMAIN editions : i < j => editions[i] < editions[j]
             /\ \A i \in DOMAIN editions : editions[i] <= new.edition]_vars

C21_Witness ==
    \E t \in MarkingTasks :
        /\ Len(EditionsOf(Annotation, t)) >= 3
        /\ \E u \in MarkingTasks \ {t} : Len(EditionsOf(Annotation, u)) >= 1
        /\ Annotation[MarkingTask[t]].edition = 3

\* C22: in an invocation that computes the heatmap, a paper whose box is too
\* small or has a digit cell without contour gets no entry in the heatmap and
\* no row from either strategy; every matrix of the heatmap has
\* student_number_length positions; the other papers with a box get their
\* matrix.
Unreadable(page) ==
    /\ page.scanned
    /\ page.region
    /\ ~page.big \/ \E i \in IdPositions : page.cells[i] = Blank

C22_UnreadableBoxLeftOut ==
    [][(pc # "idle" /\ recompute_heatmap) =>
          LET computed == pc = "boxes" /\ error' # "ModelLoadError"
          IN /\ \A p \in img_file_dict :
                    IF Unreadable(id_pages[p])
                    THEN /\ p \notin DOMAIN probabilities'
                         /\ computed => p \notin DOMAIN heatmap_file'.data
                         /\ Rows(IDPrediction', p, MLGreedy) = Rows(IDPrediction, p, MLGreedy)
                         /\ Rows(IDPrediction', p, MLLAP) = Rows(IDPrediction, p, MLLAP)
                    ELSE computed => p \in DOMAIN heatmap_file'.data
             /\ computed => \A p \in DOMAIN heatmap_file'.data :
                                Len(heatmap_file'.data[p]) = student_number_length]_vars

C22_Witness ==
    /\ pc = "done"
    /\ recompute_heatmap
    /\ \E p, q \in img_file_dict :
          /\ Unreadable(id_pages[p])
          /\ \E i \in IdPositions : id_pages[p].cells[i] # Blank
          /\ RowCount(IDPrediction, p, MLGreedy) = 0
          /\ RowCount(IDPrediction, p, MLLAP) = 0
          /\ RowCount(IDPrediction, q, MLGreedy) = 1
          /\ RowCount(IDPrediction, q, MLLAP) = 1

\* C23: save_all_id_boxes leaves a paper for which the extractor returns no
\* region out of the returned map and writes no file for it, and every other
\* scanned paper that is not prenamed is in the map and has its file.
C23_NoRegionLeftOut ==
    [][(pc = "idle" /\ pc' = "boxes") =>
          \A p \in Papers :
              (id_pages[p].scanned /\ p \notin get_prenamed_paper_numbers(IDPrediction)) =>
                  IF extract_rect_region(id_pages[p])
                  THEN p \in img_file_dict' /\ p \in id_box_folder'
                  ELSE p \notin img_file_dict' /\ p \notin id_box_folder']_vars

C23_Witness ==
    /\ pc = "boxes"
    /\ id_pages[1].scanned /\ ~extract_rect_region(id_pages[1])
    /\ 1 \notin get_prenamed_paper_numbers(IDPrediction)
    /\ 2 \in img_file_dict
    /\ id_box_folder = {2}

\* C24: when the first invocation ends with the degenerate-assignment error,
\* the table is as it was before the invocation, when it held no row of
\* either strategy: it holds none now.
C24_DegenerateLeavesTable ==
    (runs = 1 /\ pc = "idle" /\ error = "IndexError") =>
        \A p \in Papers :
            RowCount(IDPrediction, p, MLGreedy) = 0 /\ RowCount(IDPrediction, p, MLLAP) = 0

C26_ConcurrentCallsOneRow ==
    /\ \A c \in Callers : calls[c].raised # "MultipleObjectsReturned"
    /\ (\A c \in Callers : calls[c].at = "idle") =>
           \A p \in Papers, predictor \in {MLGreedy, MLLAP} :
               RowCount(IDPrediction, p, predictor) <= 1

\* C28: after every cast operation, succeeding or failing, every image that
\* has been read has exactly one type-detail row, in the table of its
\* image_type; an operation that raises leaves type and rows as they were,
\* and an operation not allowed on the image's type raises ValueError.
OneMatchingDetail(images, rows, i) ==
    LET mine == {d \in rows : d.staging_image = i}
    IN Cardinality(mine) = 1 /\ \A d \in mine : d.table = images[i]

Allowed(op, image_type) ==
    CASE op = "discard" -> image_type \in {UNKNOWN, KNOWN, EXTRA, ERROR}
      [] op = "unknowify" -> image_type \in {DISCARD, KNOWN, EXTRA, ERROR}
      [] op = "extralise" -> image_type \in {DISCARD, KNOWN, UNKNOWN, ERROR}
      [] op = "knowify" -> image_type \in {UNKNOWN, DISCARD}

C29_OneChoreAtATime ==
    /\ Cardinality(NonObsolete(chores)) <= 1
    /\ \A r \in Requesters : requests[r].raised \in {"none", "PlomDatabaseCreationError"}

\* C30: when a staging bundle or a pushed bundle exists,
\* assert_can_unset_papers_printed raises PlomDependencyConflict and
\* can_unset_papers_printed returns False; when none exists,
\* can_unset_papers_printed returns True.
C30_UnsetOnlyWithoutBundles ==
    LET uploaded == StagingBundle # {} \/ Bundle # {}
    IN /\ (unset_check.called = "assert_can_unset_papers_printed" /\ uploaded)
              => unset_check.raised = "PlomDependencyConflict"
       /\ unset_check.called = "can_unset_papers_printed"
              => unset_check.value = ~uploaded
====
